---- MODULE Spec2Model ----
(***************************************************************************)
(* A model of src/chatbot.py: the handler respond(message, history) that   *)
(* retrieves passages, packs them under a token budget, posts one chat     *)
(* completion request and turns the outcome into the value it returns.     *)
(*                                                                         *)
(* Text.  A Python str is modelled exactly, as its run-length encoding: a  *)
(* sequence of runs [c |-> character, n |-> repetitions >= 1] in which no  *)
(* two neighbouring runs carry the same character.  Two strings are equal  *)
(* iff their encodings are equal, len is the sum of the repetitions and +  *)
(* is Cat.  The encoding lets a 52,000 character question (the length at   *)
(* which the knowledge budget reaches 0) be one run.                       *)
(***************************************************************************)
EXTENDS Integers, Sequences, FiniteSets, TLC

VARIABLES
    pc,                    \* position in respond: "retrieve", "loop", "post", "parse", "done"
    message,               \* the argument of respond (a str)
    docs,                  \* line 38: the page_content of the retrieved documents
    idx,                   \* the for loop of line 50: docs[1..idx-1] have been visited
    knowledge,             \* line 41 / 55
    total_tokens,          \* line 42 / 56
    max_knowledge_tokens,  \* line 48
    included,              \* per visited document: did line 54 take the if branch
    data,                  \* lines 67-74: the request body that was posted
    posts,                 \* number of requests.post calls made (line 77)
    response_json,         \* line 86
    exc,                   \* the exception caught at line 101
    ret,                   \* the line of the return statement executed (0: none yet)
    result                 \* the value respond returned

vars == <<pc, message, docs, idx, knowledge, total_tokens, max_knowledge_tokens,
          included, data, posts, response_json, exc, ret, result>>

----------------------------------------------------------------------------
(* Bounds of the model. *)

\* documents of 0 .. MaxDocTokens estimated tokens are retrieved
MaxDocTokens == 2
\* questions are drawn so that the knowledge budget takes each value in -1 .. MaxSmallBudget
MaxSmallBudget == 2

----------------------------------------------------------------------------
(* Python str *)

Run(c, n) == [c |-> c, n |-> n]

\* c * n
Rep(c, n) == IF n = 0 THEN <<>> ELSE <<Run(c, n)>>

\* s + t
Cat(s, t) ==
    IF s = <<>> THEN t
    ELSE IF t = <<>> THEN s
    ELSE IF s[Len(s)].c = t[1].c
         THEN SubSeq(s, 1, Len(s) - 1) \o <<Run(t[1].c, s[Len(s)].n + t[1].n)>> \o Tail(t)
         ELSE s \o t

\* len(s)
RECURSIVE StrLen(_)
StrLen(s) == IF s = <<>> THEN 0 ELSE s[1].n + StrLen(Tail(s))

\* a string literal, given character by character
RECURSIVE Lit(_)
Lit(chars) == IF chars = <<>> THEN <<>> ELSE Cat(Rep(chars[1], 1), Lit(Tail(chars)))

\* s.startswith(p)
RECURSIVE StartsWith(_, _)
StartsWith(s, p) ==
    IF p = <<>> THEN TRUE
    ELSE IF s = <<>> THEN FALSE
    ELSE IF s[1].c # p[1].c THEN FALSE
    ELSE IF Len(p) = 1 THEN p[1].n <= s[1].n
    ELSE p[1].n = s[1].n /\ StartsWith(Tail(s), Tail(p))

----------------------------------------------------------------------------
(* Configuration and literals of chatbot.py *)

MAX_TOKENS == 14000
\* the retriever's search_kwargs k
K == 3
\* "Reserve 1000 tokens for model response"
RESPONSE_RESERVE == 1000
\* the request's "max_tokens"
MAX_RESPONSE_TOKENS == 1000
\* OPENROUTER_MODEL, by default
MODEL_NAME == "openai/gpt-3.5-turbo"

system_prompt ==
    Lit(<<"Y", "o", "u", " ", "a", "n", "s", "w", "e", "r", " ", "q", "u", "e", "s",
          "t", "i", "o", "n", "s", " ", "b", "a", "s", "e", "d", " ", "o", "n", "l",
          "y", " ", "o", "n", " ", "t", "h", "e", " ", "p", "r", "o", "v", "i", "d",
          "e", "d", " ", "k", "n", "o", "w", "l", "e", "d", "g", "e", ".">>)

QUESTION_PREFIX == Lit(<<"Q", "u", "e", "s", "t", "i", "o", "n", ":", " ">>)

KNOWLEDGE_PREFIX ==
    Lit(<<"\n", "\n", "K", "n", "o", "w", "l", "e", "d", "g", "e", ":", " ">>)

\* the separator appended after each included document
SEP == Lit(<<"\n", "\n">>)

API_ERROR_PREFIX == Lit(<<"A", "P", "I", " ", "E", "r", "r", "o", "r", ":", " ">>)

ERROR_PREFIX == Lit(<<"E", "r", "r", "o", "r", ":", " ">>)

COULD_NOT_PARSE ==
    Lit(<<"C", "o", "u", "l", "d", " ", "n", "o", "t", " ", "p", "a", "r", "s", "e",
          " ", "A", "P", "I", " ", "r", "e", "s", "p", "o", "n", "s", "e", " ", "p",
          "r", "o", "p", "e", "r", "l", "y", ".">>)

----------------------------------------------------------------------------
(* estimate_tokens and the prompt arithmetic *)

estimate_tokens(text) == StrLen(text) \div 4

\* f"Question: {message}\n\nKnowledge: "
user_prompt_template(msg) == Cat(Cat(QUESTION_PREFIX, msg), KNOWLEDGE_PREFIX)

base_tokens(msg) == estimate_tokens(system_prompt) + estimate_tokens(user_prompt_template(msg))

MaxKnowledgeTokens(msg) == MAX_TOKENS - base_tokens(msg) - RESPONSE_RESERVE

----------------------------------------------------------------------------
(* The packing loop, lines 50-59 *)

\* line 54 with < for <=
FitsStrict(total, doc_tokens, budget) == total + doc_tokens < budget

\* line 54 without the running total
FitsAlone(total, doc_tokens, budget) == doc_tokens <= budget

\* line 54: the test that admits a document
Fits(total, doc_tokens, budget) == total + doc_tokens <= budget

\* line 55 with the document put in front of the block
AppendDocInFront(k, doc_content) == Cat(Cat(doc_content, SEP), k)

\* line 55: knowledge += doc_content + "\n\n"
AppendDoc(k, doc_content) == Cat(k, Cat(doc_content, SEP))

\* one iteration of the for loop on the loop's variables
\* st = [knowledge, total_tokens, included]
loop_body(st, doc_content, budget) ==
    LET doc_tokens == estimate_tokens(doc_content) IN
    IF Fits(st.total_tokens, doc_tokens, budget)
    THEN [knowledge    |-> AppendDoc(st.knowledge, doc_content),
          total_tokens |-> st.total_tokens + doc_tokens,
          included     |-> Append(st.included, TRUE)]
    ELSE [knowledge    |-> st.knowledge,
          total_tokens |-> st.total_tokens,
          included     |-> Append(st.included, FALSE)]

\* lines 41-42: the loop's variables before the first iteration
LoopStart == [knowledge |-> <<>>, total_tokens |-> 0, included |-> <<>>]

\* the whole loop over the documents ds, from the loop state st
RECURSIVE RunLoop(_, _, _)
RunLoop(st, ds, budget) ==
    IF ds = <<>> THEN st ELSE RunLoop(loop_body(st, Head(ds), budget), Tail(ds), budget)

----------------------------------------------------------------------------
(* Python values: the parsed JSON body and what respond returns *)

PyStr(s) == [t |-> "str", v |-> s]
PyNone == [t |-> "null", v |-> <<>>]
\* a list of values
PyList(items) == [t |-> "list", v |-> items]
\* a dict, as the sequence of its entries
PyDict(entries) == [t |-> "dict", v |-> entries]
Entry(key, val) == [key |-> key, val |-> val]

\* the keys respond looks up, as text
KeyText(key) ==
    CASE key = "error"   -> Lit(<<"e", "r", "r", "o", "r">>)
      [] key = "message" -> Lit(<<"m", "e", "s", "s", "a", "g", "e">>)
      [] key = "choices" -> Lit(<<"c", "h", "o", "i", "c", "e", "s">>)
      [] key = "content" -> Lit(<<"c", "o", "n", "t", "e", "n", "t">>)

\* an expression's outcome: a value, or an exception raised at a line
Ok(v) == [ok |-> TRUE, v |-> v]
Raise(kind, line, text) == [ok |-> FALSE, kind |-> kind, line |-> line, text |-> text]

\* str(KeyError(key)) is repr(key)
KeyErrorText(key) == Cat(Lit(<<"'">>), Cat(KeyText(key), Lit(<<"'">>)))

\* key in c, at a line; desc is the interpreter's text for a TypeError
Contains(key, c, line, desc) ==
    CASE c.t = "dict" -> Ok(\E i \in 1..Len(c.v) : c.v[i].key = key)
      [] c.t = "list" -> Ok(\E i \in 1..Len(c.v) : c.v[i].t = "str" /\ c.v[i].v = KeyText(key))
      [] c.t = "null" -> Raise("TypeError", line, desc)

\* c[key] for a str key
Subscript(c, key, line, desc) ==
    CASE c.t = "dict" ->
           IF \E i \in 1..Len(c.v) : c.v[i].key = key
           THEN Ok(c.v[CHOOSE i \in 1..Len(c.v) : c.v[i].key = key].val)
           ELSE Raise("KeyError", line, KeyErrorText(key))
      [] c.t \in {"list", "str", "null"} -> Raise("TypeError", line, desc)

\* c[0]
First(c, line, desc) ==
    CASE c.t = "list" ->
           IF Len(c.v) > 0 THEN Ok(c.v[1])
           ELSE Raise("IndexError", line, desc)
      [] c.t = "dict" -> Raise("KeyError", line, Lit(<<"0">>))
      [] c.t = "null" -> Raise("TypeError", line, desc)

\* len(c)
PyLen(c, line, desc) ==
    CASE c.t \in {"list", "dict"} -> Ok(Len(c.v))
      [] c.t = "str" -> Ok(StrLen(c.v))
      [] c.t = "null" -> Raise("TypeError", line, desc)

\* a value formatted by an f-string
Format(v) ==
    CASE v.t = "str" -> v.v
      [] v.t = "null" -> Lit(<<"N", "o", "n", "e">>)

\* a return statement's outcome
Return(line, v) == [ok |-> TRUE, line |-> line, v |-> v]

\* lines 89-91: the error branch, entered when "error" in response_json
ErrorBranch(rj, desc) ==
    LET e == Subscript(rj, "error", 90, desc) IN
    IF ~e.ok THEN e
    ELSE LET error_msg == Subscript(e.v, "message", 90, desc) IN
         IF ~error_msg.ok THEN error_msg
         ELSE Return(91, PyStr(Cat(API_ERROR_PREFIX, Format(error_msg.v))))

\* lines 94-99, entered when "choices" in response_json
ChoicesBranch(rj, desc) ==
    LET choices == Subscript(rj, "choices", 94, desc)
        n       == PyLen(choices.v, 94, desc)
        first   == First(choices.v, 95, desc)
        has_msg == Contains("message", first.v, 95, desc)
        msg     == Subscript(first.v, "message", 96, desc)
        answer  == Subscript(msg.v, "content", 96, desc)
    IN  IF ~n.ok THEN n
        ELSE IF ~(n.v > 0) THEN Return(99, PyStr(COULD_NOT_PARSE))
        ELSE IF ~first.ok THEN first
        ELSE IF ~has_msg.ok THEN has_msg
        ELSE IF ~has_msg.v THEN Return(99, PyStr(COULD_NOT_PARSE))
        ELSE IF ~msg.ok THEN msg
        ELSE IF ~answer.ok THEN answer
        ELSE Return(97, answer.v)

\* lines 88-99 on the parsed body rj
Classify(rj, desc) ==
    LET has_error == Contains("error", rj, 89, desc) IN
    IF ~has_error.ok THEN has_error
    ELSE IF has_error.v THEN ErrorBranch(rj, desc)
    ELSE LET has_choices == Contains("choices", rj, 94, desc) IN
         IF ~has_choices.ok THEN has_choices
         ELSE IF has_choices.v THEN ChoicesBranch(rj, desc)
         ELSE Return(99, PyStr(COULD_NOT_PARSE))

\* lines 101-104: what the except clause returns for the exception e
ExceptReturn(e) == PyStr(Cat(ERROR_PREFIX, e.text))

----------------------------------------------------------------------------
(* The inputs: questions, retrieved documents, failures, response bodies *)

\* the scenario of the packing example: estimated sizes and budget
Scenario == [sizes |-> <<500, 4000, 300>>, budget |-> 600]

\* the length of a question whose knowledge budget is b (the largest multiple-of-4 fit)
MsgLenFor(b) ==
    4 * (MAX_TOKENS - RESPONSE_RESERVE - estimate_tokens(system_prompt) - b)
      - StrLen(QUESTION_PREFIX) - StrLen(KNOWLEDGE_PREFIX)

\* the questions asked: the empty one, a one character one, and long ones that
\* leave a budget of -1 .. MaxSmallBudget and of the scenario
Messages ==
    {Rep("q", n) : n \in {0, 1}}
      \cup {Rep("q", MsgLenFor(b)) : b \in (-1 .. MaxSmallBudget) \cup {Scenario.budget}}

\* document lengths in characters: whole tokens, and 3 characters over
DocLens == {4 * t : t \in 0..MaxDocTokens} \cup {4 * t + 3 : t \in 0..(MaxDocTokens - 1)}

\* the page_content of a stored document
Passages == {Rep(IF n % 4 = 0 THEN "a" ELSE "b", n) : n \in DocLens}

ScenarioDocs == [i \in 1..Len(Scenario.sizes) |-> Rep("a", 4 * Scenario.sizes[i])]

\* what retriever.invoke returns: at most K documents, most relevant first
RetrieverResults == UNION {[1..n -> Passages] : n \in 0..K} \cup {ScenarioDocs}

\* str(e) of an exception raised by a library or the interpreter
ExcTexts == {Lit(<<"t", "i", "m", "e", "d", " ", "o", "u", "t">>), Lit(<<"b", "a", "d">>)}

QUOTA == Lit(<<"q", "u", "o", "t", "a">>)
ANSWER == Lit(<<"R", "A", "G">>)

\* a dict's entry for key with one of the values, or no entry
Entries(key, vals) == {<<>>} \cup {<<Entry(key, v)>> : v \in vals}

ErrMsgVals == {PyStr(QUOTA), PyNone}
ErrorVals ==
    {PyStr(QUOTA), PyNone} \cup {PyDict(m) : m \in Entries("message", ErrMsgVals)}
ContentVals == {PyStr(ANSWER), PyNone}
MessageVals == {PyNone} \cup {PyDict(c) : c \in Entries("content", ContentVals)}
ChoiceVals == {PyNone} \cup {PyDict(m) : m \in Entries("message", MessageVals)}
ChoicesVals == {PyNone, PyList(<<>>)} \cup {PyList(<<c>>) : c \in ChoiceVals}

\* the values response.json() returns
Bodies ==
    {PyDict(e \o c) : e \in Entries("error", ErrorVals), c \in Entries("choices", ChoicesVals)}
      \cup {PyNone, PyList(<<>>), PyList(<<PyStr(KeyText("error"))>>)}

----------------------------------------------------------------------------
(* respond *)

NoExc == [kind |-> "none", line |-> 0, text |-> <<>>]
NotYet == [t |-> "unset", v |-> <<>>]

\* lines 67-74: the request body
Request(msg, k) ==
    [model      |-> MODEL_NAME,
     messages   |-> <<[role |-> "system", content |-> system_prompt],
                      [role |-> "user",
                       content |-> Cat(Cat(Cat(QUESTION_PREFIX, msg), KNOWLEDGE_PREFIX), k)]>>,
     max_tokens |-> MAX_RESPONSE_TOKENS]
NoRequest == [model |-> "", messages |-> <<>>, max_tokens |-> 0]

Init ==
    /\ pc = "retrieve"
    /\ message \in Messages
    /\ docs = <<>>
    /\ idx = 1
    /\ knowledge = <<>>
    /\ total_tokens = 0
    /\ max_knowledge_tokens = 0
    /\ included = <<>>
    /\ data = NoRequest
    /\ posts = 0
    /\ response_json = NotYet
    /\ exc = NoExc
    /\ ret = 0
    /\ result = NotYet

\* lines 101-104: the except clause catches e and respond returns
Caught(e) ==
    /\ exc' = [kind |-> e.kind, line |-> e.line, text |-> e.text]
    /\ result' = ExceptReturn(e)
    /\ ret' = 104
    /\ pc' = "done"

\* line 38 returns; lines 41-48 set up the loop
RetrieveReturns ==
    /\ pc = "retrieve"
    /\ \E d \in RetrieverResults :
         /\ docs' = d
         /\ pc' = IF d = <<>> THEN "post" ELSE "loop"
    /\ knowledge' = LoopStart.knowledge
    /\ total_tokens' = LoopStart.total_tokens
    /\ included' = LoopStart.included
    /\ idx' = 1
    /\ max_knowledge_tokens' = MaxKnowledgeTokens(message)
    /\ UNCHANGED <<message, data, posts, response_json, exc, ret, result>>

\* line 38 raises
RetrieveRaises ==
    /\ pc = "retrieve"
    /\ \E desc \in ExcTexts : Caught(Raise("Exception", 38, desc))
    /\ UNCHANGED <<message, docs, idx, knowledge, total_tokens, max_knowledge_tokens,
                   included, data, posts, response_json>>

\* lines 50-59: one iteration
LoopStep ==
    /\ pc = "loop"
    /\ idx <= Len(docs)
    /\ LET st == loop_body([knowledge |-> knowledge, total_tokens |-> total_tokens,
                            included |-> included], docs[idx], max_knowledge_tokens)
       IN  /\ knowledge' = st.knowledge
           /\ total_tokens' = st.total_tokens
           /\ included' = st.included
    /\ idx' = idx + 1
    /\ pc' = IF idx = Len(docs) THEN "post" ELSE "loop"
    /\ UNCHANGED <<message, docs, max_knowledge_tokens, data, posts, response_json,
                   exc, ret, result>>

\* lines 61-81: the request is built and posted, and a response arrives
PostReturns ==
    /\ pc = "post"
    /\ data' = Request(message, knowledge)
    /\ posts' = posts + 1
    /\ pc' = "parse"
    /\ UNCHANGED <<message, docs, idx, knowledge, total_tokens, max_knowledge_tokens,
                   included, response_json, exc, ret, result>>

\* requests.post raises and the request is posted again
PostRaisesRetried ==
    /\ pc = "post"
    /\ data' = Request(message, knowledge)
    /\ posts' = posts + 1
    /\ UNCHANGED <<pc, message, docs, idx, knowledge, total_tokens, max_knowledge_tokens,
                   included, response_json, exc, ret, result>>

\* lines 61-81: the request is built and posted, and requests.post raises
PostRaises ==
    /\ pc = "post"
    /\ data' = Request(message, knowledge)
    /\ posts' = posts + 1
    /\ \E desc \in ExcTexts : Caught(Raise("RequestException", 77, desc))
    /\ UNCHANGED <<message, docs, idx, knowledge, total_tokens, max_knowledge_tokens,
                   included, response_json>>

\* line 86: the body is not JSON and response.json() raises
JsonRaises ==
    /\ pc = "parse"
    /\ \E desc \in ExcTexts : Caught(Raise("JSONDecodeError", 86, desc))
    /\ UNCHANGED <<message, docs, idx, knowledge, total_tokens, max_knowledge_tokens,
                   included, data, posts, response_json>>

\* lines 86-99: the body parses, and is classified
Parse ==
    /\ pc = "parse"
    /\ \E body \in Bodies, desc \in ExcTexts :
         LET out == Classify(body, desc) IN
         /\ response_json' = body
         /\ IF out.ok
            THEN /\ result' = out.v
                 /\ ret' = out.line
                 /\ pc' = "done"
                 /\ exc' = exc
            ELSE Caught(out)
    /\ UNCHANGED <<message, docs, idx, knowledge, total_tokens, max_knowledge_tokens,
                   included, data, posts>>

Next ==
    \/ RetrieveReturns
    \/ RetrieveRaises
    \/ LoopStep
    \/ PostReturns
    \/ PostRaises
    \/ JsonRaises
    \/ Parse

Spec == Init /\ [][Next]_vars

----------------------------------------------------------------------------
(* Vocabulary of the properties *)

\* the packing loop has run to its end
Packed == pc \in {"post", "parse"} \/ (pc = "done" /\ exc.line # 38)

\* the body parsed as JSON
Parsed == response_json.t # "unset"

\* d is a dict with an entry for key
HasKey(d, key) == d.t = "dict" /\ \E i \in 1..Len(d.v) : d.v[i].key = key

\* the value of d's entry for key
ValueOf(d, key) == d.v[CHOOSE i \in 1..Len(d.v) : d.v[i].key = key].val

\* a non-empty choices list whose first element carries a message with textual content
SuccessShape(rj) ==
    /\ HasKey(rj, "choices")
    /\ ValueOf(rj, "choices").t = "list"
    /\ Len(ValueOf(rj, "choices").v) > 0
    /\ HasKey(ValueOf(rj, "choices").v[1], "message")
    /\ HasKey(ValueOf(ValueOf(rj, "choices").v[1], "message"), "content")
    /\ ValueOf(ValueOf(ValueOf(rj, "choices").v[1], "message"), "content").t = "str"

Reverse(s) == [i \in 1..Len(s) |-> s[Len(s) + 1 - i]]

\* the estimated tokens of the documents among ds[1..k-1] that inc marks included
RECURSIVE SumBefore(_, _, _)
SumBefore(ds, inc, k) ==
    IF k <= 1 THEN 0
    ELSE SumBefore(ds, inc, k - 1) + (IF inc[k - 1] THEN estimate_tokens(ds[k - 1]) ELSE 0)

\* the texts of the documents inc marks included, each followed by the separator,
\* in the order of ds
RECURSIVE BlockOf(_, _)
BlockOf(ds, inc) ==
    IF inc = <<>> THEN <<>>
    ELSE Cat(IF Head(inc) THEN Cat(Head(ds), SEP) ELSE <<>>, BlockOf(Tail(ds), Tail(inc)))

\* the loop's result on the documents in reversed order, under the same budget
Reversed == RunLoop(LoopStart, Reverse(docs), max_knowledge_tokens)

----------------------------------------------------------------------------
(* The claims *)

\* C1: for a budget >= 0, the estimated token count of the knowledge block built by
\* the packing loop (estimate_tokens of the block string) does not exceed the budget.
C1_BlockWithinBudget ==
    (Packed /\ max_knowledge_tokens >= 0)
        => estimate_tokens(knowledge) <= max_knowledge_tokens

\* C2: when the derived budget is zero or negative the knowledge block after the loop
\* is the empty string for every non-empty list of passages, and the request is sent
\* with the empty block.
C2_EmptyBlockWhenNoBudget ==
    (Packed /\ max_knowledge_tokens <= 0 /\ docs # <<>>)
        => /\ knowledge = <<>>
           /\ posts = 1 => data = Request(message, <<>>)

\* C3: when the parsed body has a top-level "error" entry, respond returns the
\* API-error string, whatever else the body holds: never the could-not-parse string,
\* never the generic "Error: ..." string.
C3_ErrorEntryGivesApiError ==
    (pc = "done" /\ Parsed /\ HasKey(response_json, "error"))
        => /\ ret = 91
           /\ result.t = "str"
           /\ StartsWith(result.v, API_ERROR_PREFIX)

\* C4: whatever the retriever and the HTTP call do, respond returns a text string:
\* never a non-string value.
C4_ReturnsString == pc = "done" => result.t = "str"

\* C5: when the parsed body has no error entry and not the success shape, respond
\* returns exactly "Could not parse API response properly.".
C5_MalformedGivesFixedString ==
    (pc = "done" /\ Parsed /\ ~HasKey(response_json, "error") /\ ~SuccessShape(response_json))
        => result = PyStr(COULD_NOT_PARSE)

\* C6: the POST is issued at most once: exactly once when retrieval returns, not at
\* all when retrieval raises, and no second time after any outcome.
C6_PostAtMostOnce ==
    /\ posts <= 1
    /\ pc \in {"retrieve", "loop", "post"} => posts = 0
    /\ pc = "parse" => posts = 1
    /\ pc = "done" => posts = (IF exc.line = 38 THEN 0 ELSE 1)

\* C6's case: an API error was returned, after one POST
C6_Witness == pc = "done" /\ ret = 91 /\ posts = 1 /\ docs = <<>>

\* C7 as stated: packing the reversed list never includes a larger total of
\* estimated tokens than packing the list in its original order.
C7_ReversalNeverLarger == Packed => Reversed.total_tokens <= total_tokens

\* C7 as amended: in either order the included total stays within the budget (and is
\* 0 under a negative budget), and when the original order includes every passage the
\* reversed order includes every passage too, with the same total.
C7_ReversalWithinBudget ==
    Packed =>
        /\ max_knowledge_tokens >= 0 =>
              /\ Reversed.total_tokens <= max_knowledge_tokens
              /\ total_tokens <= max_knowledge_tokens
        /\ max_knowledge_tokens < 0 => (Reversed.total_tokens = 0 /\ total_tokens = 0)
        /\ (\A k \in 1..Len(docs) : included[k]) =>
              /\ \A k \in 1..Len(docs) : Reversed.included[k]
              /\ Reversed.total_tokens = total_tokens

\* C7's case: the reversed order includes other passages and a larger total
C7_Witness ==
    /\ Packed
    /\ max_knowledge_tokens >= 0
    /\ Reversed.included # Reverse(included)
    /\ Reversed.total_tokens > total_tokens

\* C8: the knowledge block is the texts of the included passages in the retriever's
\* order, each once and each followed by the separator, and nothing of a skipped one.
C8_RankOrderPreserved ==
    /\ Len(included) = (IF Packed THEN Len(docs) ELSE idx - 1)
    /\ knowledge = BlockOf(docs, included)

\* C8's case: two different passages included around a skipped one
C8_Witness ==
    /\ Packed
    /\ included = <<TRUE, FALSE, TRUE>>
    /\ docs[1] # docs[3]
    /\ docs[1] # <<>>
    /\ docs[3] # <<>>

\* C9: a passage is included iff the estimates of the passages included before it plus
\* its own are within the budget; a passage that does not fit does not end the scan;
\* for estimated sizes [500, 4000, 300] and budget 600 only passage 1 is included.
C9_GreedyFirstFit ==
    /\ \A k \in 1..Len(included) :
          included[k] <=>
              SumBefore(docs, included, k) + estimate_tokens(docs[k]) <= max_knowledge_tokens
    /\ total_tokens = SumBefore(docs, included, Len(included) + 1)
    /\ Packed => Len(included) = Len(docs)
    /\ (Packed /\ docs = ScenarioDocs /\ max_knowledge_tokens = Scenario.budget)
          => included = <<TRUE, FALSE, FALSE>>

\* C9's case: the scenario has been packed
C9_Witness ==
    /\ Packed
    /\ max_knowledge_tokens = Scenario.budget
    /\ Len(docs) = Len(Scenario.sizes)
    /\ \A i \in 1..Len(docs) : estimate_tokens(docs[i]) = Scenario.sizes[i]
    /\ knowledge = Cat(docs[1], SEP)

\* C10: every request sent keeps estimate_tokens(system prompt) +
\* estimate_tokens(user message content) + the response reservation within MAX_TOKENS.
C10_RequestWithinCeiling ==
    posts > 0 =>
        estimate_tokens(data.messages[1].content) + estimate_tokens(data.messages[2].content)
            + RESPONSE_RESERVE <= MAX_TOKENS

====
